---------------------------- MODULE Spec2Model ----------------------------
(*************************************************************************)
(* Model of csv_to_iceberg.py: one run of insert_csv_to_iceberg, from    *)
(* load_config to the final summary line.  Strings that the code         *)
(* inspects (config path, table name, column names) are sequences of     *)
(* one-character strings, so that splitext, lower, split and the 'date'  *)
(* substring test are computed as the code computes them.                *)
(*************************************************************************)
EXTENDS Integers, Sequences, FiniteSets, TLC

\* ----------------------------------------------------------------- bounds
MaxRows == 2    \* data rows of the CSV
MaxCols == 2    \* columns of the CSV header

\* ------------------------------------------------------- string helpers
Uppers == <<"A", "D", "E", "L", "M", "T", "Y">>
Lowers == <<"a", "d", "e", "l", "m", "t", "y">>

\* str.lower() on one character
LowerChar(c) ==
    IF \E i \in 1..Len(Uppers) : Uppers[i] = c
    THEN Lowers[CHOOSE i \in 1..Len(Uppers) : Uppers[i] = c]
    ELSE c

\* str.lower()
Lower(s) == [i \in 1..Len(s) |-> LowerChar(s[i])]

\* needle in hay  (substring test)
Contains(hay, needle) ==
    \E i \in 1..(Len(hay) - Len(needle) + 1) :
        SubSeq(hay, i, i + Len(needle) - 1) = needle

\* positions of the character c in s
Positions(s, c) == {i \in 1..Len(s) : s[i] = c}

Max(S) == CHOOSE x \in S : \A y \in S : y <= x
Min(S) == CHOOSE x \in S : \A y \in S : x <= y

\* os.path.splitext(p)[1]: the text from the last '.', unless that '.' is
\* preceded by leading dots only (then the extension is empty)
SplitExt(p) ==
    LET dots == Positions(p, ".") IN
    IF dots = {} THEN <<>>
    ELSE LET d == Max(dots) IN
         IF \A i \in 1..(d - 1) : p[i] = "." THEN <<>>
         ELSE SubSeq(p, d, Len(p))

\* str.split('.'): split on every '.'
RECURSIVE SplitDots(_)
SplitDots(s) ==
    LET dots == Positions(s, ".") IN
    IF dots = {} THEN <<s>>
    ELSE LET d == Min(dots) IN
         <<SubSeq(s, 1, d - 1)>> \o SplitDots(SubSeq(s, d + 1, Len(s)))

\* ------------------------------------------------------------ load_config
EXT_YAML == <<".", "y", "a", "m", "l">>
EXT_YML  == <<".", "y", "m", "l">>
EXT_JSON == <<".", "j", "s", "o", "n">>

\* load_config with the existence test after the extension dispatch
LoadConfigExtFirst(config_path, exists) ==
    LET file_ext == Lower(SplitExt(config_path)) IN
    IF file_ext \notin {EXT_YAML, EXT_YML, EXT_JSON}
    THEN [kind |-> "ValueError", ext |-> file_ext]
    ELSE IF ~exists THEN [kind |-> "FileNotFoundError", ext |-> <<>>]
    ELSE [kind |-> "mapping", ext |-> file_ext]

\* load_config with the .json branch taken for every other extension
LoadConfigElseJson(config_path, exists) ==
    IF ~exists THEN [kind |-> "FileNotFoundError", ext |-> <<>>]
    ELSE [kind |-> "mapping", ext |-> Lower(SplitExt(config_path))]

\* load_config(config_path) on a file system where the path exists or not:
\* the outcome, and the extension the ValueError names
LoadConfig(config_path, exists) ==
    IF ~exists THEN [kind |-> "FileNotFoundError", ext |-> <<>>]
    ELSE LET file_ext == Lower(SplitExt(config_path)) IN
         IF file_ext = EXT_YAML \/ file_ext = EXT_YML
         THEN [kind |-> "mapping", ext |-> file_ext]
         ELSE IF file_ext = EXT_JSON
         THEN [kind |-> "mapping", ext |-> file_ext]
         ELSE [kind |-> "ValueError", ext |-> file_ext]

\* ------------------------------------------------------ get_table_columns
NoSchema == <<"N", "o", "n", "e">>    \* Python's None for the schema

\* the parse of table_name: `schema, table = table_name.split('.')` raises
\* ValueError unless the split has exactly two parts
ParseTableName(table_name) ==
    IF Contains(table_name, <<".">>)
    THEN LET parts == SplitDots(table_name) IN
         IF Len(parts) = 2
         THEN [ok |-> TRUE, schema |-> parts[1], table |-> parts[2]]
         ELSE [ok |-> FALSE, schema |-> NoSchema, table |-> <<>>]
    ELSE [ok |-> TRUE, schema |-> NoSchema, table |-> table_name]

\* `AND table_schema = ...` is added `if schema`: None and '' are falsy
HasSchemaFilter(schema) == schema # NoSchema /\ schema # <<>>

MetadataQuery(p) ==
    [kind |-> "select", target |-> p.table,
     schema |-> IF HasSchemaFilter(p.schema) THEN p.schema ELSE <<>>,
     filtered |-> HasSchemaFilter(p.schema),
     columns |-> <<>>, params |-> <<>>, row |-> 0]

\* `if not columns: raise` left out
ColumnsMissingNever(columns) == FALSE

\* `if not columns`
ColumnsMissing(columns) == columns = <<>>

\* -------------------------------------------------------------- the data
\* A cell value: a CSV string, pandas' NaN (missing field), a date, pandas'
\* NaT (the date of a missing field) or Python's None
Str(s)  == [t |-> "str", v |-> s]
Date(s) == [t |-> "date", v |-> s]
NaN     == [t |-> "nan", v |-> ""]
NaT     == [t |-> "nat", v |-> ""]
None    == [t |-> "none", v |-> ""]

RawValues   == {"2023-01-15", "not-a-date"}   \* field texts of the CSV
DateStrings == {"2023-01-15"}                 \* texts pd.to_datetime accepts

\* the CSV files: a header of ncols names (never inspected) and data rows of
\* 1..ncols fields each
RawRowsOf(n) == UNION {[1..k -> RawValues] : k \in 1..n}
RowLists(n)  == UNION {[1..k -> RawRowsOf(n)] : k \in 0..MaxRows}
CsvFiles     == UNION {{[ncols |-> n, rows |-> rs] : rs \in RowLists(n)} : n \in 1..MaxCols}

\* pd.read_csv: a rectangular frame of ncols columns; a row shorter than the
\* header is padded with NaN
ReadCsv(f) ==
    [ncols |-> f.ncols,
     rows  |-> [r \in 1..Len(f.rows) |->
                  [j \in 1..f.ncols |->
                     IF j <= Len(f.rows[r]) THEN Str(f.rows[r][j]) ELSE NaN]]]

EmptyFrame == [ncols |-> 0, rows |-> <<>>]

\* column j of the frame, top to bottom
Column(d, j) == [r \in 1..Len(d.rows) |-> d.rows[r][j]]

\* pd.to_datetime on one value raises unless the value is a date text or
\* missing
Parses(v) == (v.t = "str" /\ v.v \in DateStrings) \/ v.t \in {"nan", "nat", "date"}

\* pd.to_datetime(v).date()
ToDate(v) == IF v.t = "str" THEN Date(v.v)
             ELSE IF v.t = "date" THEN v
             ELSE NaT

\* the truncation taking the last columns of the table
TruncateColumnsTail(table_columns, ncols) ==
    IF Len(table_columns) > ncols
    THEN SubSeq(table_columns, Len(table_columns) - ncols + 1, Len(table_columns))
    ELSE table_columns

\* table_columns[:len(df.columns)] when the table has more columns
TruncateColumns(table_columns, ncols) ==
    IF Len(table_columns) > ncols
    THEN SubSeq(table_columns, 1, ncols)
    ELSE table_columns

DATE == <<"d", "a", "t", "e">>

\* 'date' in col_name.lower()
IsDateName(col_name) == Contains(Lower(col_name), DATE)

\* the conversion applied value by value, keeping what does not parse
CoerceColumnPerValue(col) ==
    [r \in 1..Len(col) |-> IF Parses(col[r]) THEN ToDate(col[r]) ELSE col[r]]

\* try: pd.to_datetime(df[col_idx]).dt.date  except: pass
CoerceColumn(col) ==
    IF \A r \in 1..Len(col) : Parses(col[r])
    THEN [r \in 1..Len(col) |-> ToDate(col[r])]
    ELSE col

\* df[j] = new column
SetColumn(d, j, col) ==
    [d EXCEPT !.rows = [r \in 1..Len(d.rows) |-> [d.rows[r] EXCEPT ![j] = col[r]]]]

\* the loop `for col_idx, col_name in enumerate(table_columns)` from col_idx
RECURSIVE CoerceFrom(_, _, _)
CoerceFrom(d, cols, col_idx) ==
    IF col_idx > Len(cols) THEN d
    ELSE IF IsDateName(cols[col_idx]) /\ col_idx <= d.ncols
         THEN CoerceFrom(SetColumn(d, col_idx, CoerceColumn(Column(d, col_idx))),
                         cols, col_idx + 1)
         ELSE CoerceFrom(d, cols, col_idx + 1)

CoerceDates(d, cols) == CoerceFrom(d, cols, 1)

\* values = [row[i] if i < len(row) else None for i in range(len(table_columns))]
RowValues(row, cols) ==
    [i \in 1..Len(cols) |-> IF i <= Len(row) THEN row[i] ELSE None]

InsertQuery(name, cols, values, r) ==
    [kind |-> "insert", target |-> name, schema |-> <<>>, filtered |-> FALSE,
     columns |-> cols, params |-> values, row |-> r]

NoQuery ==
    [kind |-> "none", target |-> <<>>, schema |-> <<>>, filtered |-> FALSE,
     columns |-> <<>>, params |-> <<>>, row |-> 0]

Event(op, q, ok) == [op |-> op, q |-> q, ok |-> ok]

\* ------------------------------------------------------------ the inputs
ConfigPaths ==
    { <<"c", ".", "Y", "M", "L">>, <<"c", ".", "j", "s", "o", "n">>,
      <<"c", ".", "t", "x", "t">>, <<"c">> }

TableNames == { <<"t">>, <<"s", ".", "t">>, <<"c", ".", "s", ".", "t">> }

COL_DATA == <<"d", "a", "t", "a">>
COL_DATE == <<"T", "_", "D", "a", "t", "e">>
ColumnNames == {COL_DATA, COL_DATE}

\* what the catalog can answer: any list of distinct column names, also none
Catalog ==
    UNION {{c \in [1..k -> ColumnNames] : \A i, j \in 1..k : i # j => c[i] # c[j]}
           : k \in 0..Cardinality(ColumnNames)}

NoError == [kind |-> "none", from |-> "", ext |-> <<>>]
Error(kind, from) == [kind |-> kind, from |-> from, ext |-> <<>>]

\* ------------------------------------------------------------- the state
VARIABLES
    config_path,      \* argument: path of the config file
    config_exists,    \* os.path.exists(config_path)
    table_name,       \* argument: target table
    pc,               \* position in insert_csv_to_iceberg
    err,              \* the exception that ended the run, if any
    config,           \* "none" or "mapping": what load_config returned
    csv,              \* the file at csv_path, as read
    df,               \* the DataFrame
    catalog_columns,  \* what cursor.fetchall() returned
    table_columns,    \* the local table_columns
    rows_inserted,    \* the local rows_inserted
    events,           \* calls made on the connection and the cursor, in order
    out,              \* lines printed
    conn_open,        \* conn exists and conn.close() has not run
    cursor_open       \* cursor exists and cursor.close() has not run

vars == <<config_path, config_exists, table_name, pc, err, config, csv, df,
          catalog_columns, table_columns, rows_inserted, events, out,
          conn_open, cursor_open>>

Init ==
    /\ config_path \in ConfigPaths
    /\ config_exists \in BOOLEAN
    /\ table_name \in TableNames
    /\ pc = "start"
    /\ err = NoError
    /\ config = "none"
    /\ csv = EmptyFrame
    /\ df = EmptyFrame
    /\ catalog_columns = <<>>
    /\ table_columns = <<>>
    /\ rows_inserted = 0
    /\ events = <<>>
    /\ out = <<>>
    /\ conn_open = FALSE
    /\ cursor_open = FALSE

\* an uncaught exception: the run ends where it is
Raise(e) == pc' = "failed" /\ err' = e

Line(msg, n, m) == [msg |-> msg, rows |-> n, cols |-> m]

\* line 55-56: config = load_config(config_path)
DoLoadConfig ==
    /\ pc = "start"
    /\ LET r == LoadConfig(config_path, config_exists) IN
       IF r.kind = "mapping"
       THEN pc' = "loaded" /\ config' = "mapping" /\ err' = err
       ELSE Raise([kind |-> r.kind, from |-> "load_config", ext |-> r.ext])
            /\ config' = config
    /\ UNCHANGED <<config_path, config_exists, table_name, csv, df,
                   catalog_columns, table_columns, rows_inserted, events, out,
                   conn_open, cursor_open>>

\* line 59: df = pd.read_csv(csv_path)
DoReadCsv ==
    /\ pc = "loaded"
    /\ \E f \in CsvFiles :
         /\ csv' = f
         /\ df' = ReadCsv(f)
    /\ pc' = "read"
    /\ UNCHANGED <<config_path, config_exists, table_name, err, config,
                   catalog_columns, table_columns, rows_inserted, events, out,
                   conn_open, cursor_open>>

\* lines 62-69: conn = trino.dbapi.connect(...); cursor = conn.cursor()
DoConnect ==
    /\ pc = "read"
    /\ conn_open' = TRUE
    /\ cursor_open' = TRUE
    /\ events' = events \o <<Event("connect", NoQuery, TRUE),
                             Event("cursor", NoQuery, TRUE)>>
    /\ pc' = "connected"
    /\ UNCHANGED <<config_path, config_exists, table_name, err, config, csv, df,
                   catalog_columns, table_columns, rows_inserted, out>>

\* lines 72-73: table_columns = get_table_columns(cursor, table_name)
DoGetTableColumns ==
    /\ pc = "connected"
    /\ LET p == ParseTableName(table_name) IN
       IF ~p.ok
       THEN /\ Raise(Error("ValueError", "split"))
            /\ UNCHANGED <<events, catalog_columns, table_columns, out>>
       ELSE \E ok \in BOOLEAN : \E columns \in Catalog :
            IF ~ok
            THEN /\ columns = <<>>
                 /\ events' = Append(events, Event("execute", MetadataQuery(p), FALSE))
                 /\ Raise(Error("StatementExecutionFailure", "metadata"))
                 /\ UNCHANGED <<catalog_columns, table_columns, out>>
            ELSE /\ events' = events \o <<Event("execute", MetadataQuery(p), TRUE),
                                          Event("fetchall", NoQuery, TRUE)>>
                 /\ catalog_columns' = columns
                 /\ IF ColumnsMissing(columns)
                    THEN /\ Raise(Error("ValueError", "columns"))
                         /\ UNCHANGED <<table_columns, out>>
                    ELSE /\ table_columns' = columns
                         /\ out' = Append(out, Line("columns", 0, Len(columns)))
                         /\ pc' = "columns"
                         /\ err' = err
    /\ UNCHANGED <<config_path, config_exists, table_name, config, csv, df,
                   rows_inserted, conn_open, cursor_open>>

\* lines 76-81: the truncation to the CSV's column count
DoTruncate ==
    /\ pc = "columns"
    /\ table_columns' = TruncateColumns(table_columns, df.ncols)
    /\ out' = IF Len(table_columns) > df.ncols
              THEN Append(out, Line("warning", Len(table_columns), df.ncols))
              ELSE out
    /\ pc' = "truncated"
    /\ UNCHANGED <<config_path, config_exists, table_name, err, config, csv, df,
                   catalog_columns, rows_inserted, events, conn_open, cursor_open>>

\* lines 84-90: the date conversion loop
DoCoerceDates ==
    /\ pc = "truncated"
    /\ df' = CoerceDates(df, table_columns)
    /\ pc' = "insert"
    /\ UNCHANGED <<config_path, config_exists, table_name, err, config, csv,
                   catalog_columns, table_columns, rows_inserted, events, out,
                   conn_open, cursor_open>>

\* the loop test with the last row left out
MoreRowsButLast == rows_inserted + 1 < Len(df.rows)

\* `for _, row in df.iterrows()` has a next row
MoreRows == rows_inserted < Len(df.rows)

\* a failing INSERT that is swallowed, the loop going on
InsertFailsAndContinues ==
    /\ events' = Append(events,
         Event("execute",
               InsertQuery(table_name, table_columns,
                           RowValues(df.rows[rows_inserted + 1], table_columns),
                           rows_inserted + 1), FALSE))
    /\ rows_inserted' = rows_inserted + 1
    /\ UNCHANGED <<pc, err>>

\* cursor.execute raises: the exception leaves insert_csv_to_iceberg
InsertFails ==
    /\ events' = Append(events,
         Event("execute",
               InsertQuery(table_name, table_columns,
                           RowValues(df.rows[rows_inserted + 1], table_columns),
                           rows_inserted + 1), FALSE))
    /\ Raise(Error("StatementExecutionFailure", "insert"))
    /\ UNCHANGED rows_inserted

\* lines 98-107: one iteration of the insert loop
DoInsertRow ==
    /\ pc = "insert"
    /\ MoreRows
    /\ \/ /\ events' = Append(events,
               Event("execute",
                     InsertQuery(table_name, table_columns,
                                 RowValues(df.rows[rows_inserted + 1], table_columns),
                                 rows_inserted + 1), TRUE))
          /\ rows_inserted' = rows_inserted + 1
          /\ UNCHANGED <<pc, err>>
       \/ InsertFails
    /\ UNCHANGED <<config_path, config_exists, table_name, config, csv, df,
                   catalog_columns, table_columns, out, conn_open, cursor_open>>

\* line 110: conn.commit()
DoCommit ==
    /\ pc = "insert"
    /\ ~MoreRows
    /\ \/ /\ events' = Append(events, Event("commit", NoQuery, TRUE))
          /\ pc' = "committed"
          /\ err' = err
       \/ /\ events' = Append(events, Event("commit", NoQuery, FALSE))
          /\ Raise(Error("StatementExecutionFailure", "commit"))
    /\ UNCHANGED <<config_path, config_exists, table_name, config, csv, df,
                   catalog_columns, table_columns, rows_inserted, out,
                   conn_open, cursor_open>>

\* cursor.close() run in place of conn.commit()
DoCloseCursorBeforeCommit ==
    /\ pc = "insert"
    /\ ~MoreRows
    /\ cursor_open' = FALSE
    /\ events' = Append(events, Event("cursor_close", NoQuery, TRUE))
    /\ pc' = "cursor_closed"
    /\ UNCHANGED <<config_path, config_exists, table_name, err, config, csv, df,
                   catalog_columns, table_columns, rows_inserted, out, conn_open>>

\* line 111: cursor.close()
DoCloseCursor ==
    /\ pc = "committed"
    /\ cursor_open' = FALSE
    /\ events' = Append(events, Event("cursor_close", NoQuery, TRUE))
    /\ pc' = "cursor_closed"
    /\ UNCHANGED <<config_path, config_exists, table_name, err, config, csv, df,
                   catalog_columns, table_columns, rows_inserted, out, conn_open>>

\* line 112: conn.close()
DoCloseConn ==
    /\ pc = "cursor_closed"
    /\ conn_open' = FALSE
    /\ events' = Append(events, Event("conn_close", NoQuery, TRUE))
    /\ pc' = "closed"
    /\ UNCHANGED <<config_path, config_exists, table_name, err, config, csv, df,
                   catalog_columns, table_columns, rows_inserted, out, cursor_open>>

\* lines 114-115: the success message and the summary
DoPrintSummary ==
    /\ pc = "closed"
    /\ out' = out \o <<Line("success", 0, 0),
                       Line("summary", rows_inserted, Len(table_columns))>>
    /\ pc' = "done"
    /\ UNCHANGED <<config_path, config_exists, table_name, err, config, csv, df,
                   catalog_columns, table_columns, rows_inserted, events,
                   conn_open, cursor_open>>

Next ==
    \/ DoLoadConfig
    \/ DoReadCsv
    \/ DoConnect
    \/ DoGetTableColumns
    \/ DoTruncate
    \/ DoCoerceDates
    \/ DoInsertRow
    \/ DoCommit
    \/ DoCloseCursor
    \/ DoCloseConn
    \/ DoPrintSummary

Spec == Init /\ [][Next]_vars

\* ---------------------------------------------------------- the claims
IsInsert(e)   == e.op = "execute" /\ e.q.kind = "insert"
IsSelect(e)   == e.op = "execute" /\ e.q.kind = "select"
InsertIdx     == {i \in 1..Len(events) : IsInsert(events[i])}
OpIdx(op)     == {i \in 1..Len(events) : events[i].op = op}
Connected     == OpIdx("connect") # {}
AfterCoercion == pc \in {"insert", "committed", "cursor_closed", "closed", "done"}
                 \/ (pc = "failed" /\ err.from \in {"insert", "commit"})
AfterTruncation == pc = "truncated" \/ AfterCoercion
Prefix(s, n)  == SubSeq(s, 1, IF Len(s) < n THEN Len(s) ELSE n)

\* C1: a run that completes without error on a CSV with N data rows made,
\* after the metadata query, exactly N successful INSERTs, one per data row
\* in row order, then one commit, then cursor close, then connection close,
\* and printed N as the row count; no INSERT ever follows a commit.
C1_SuccessfulRunSequence ==
    LET N == Len(csv.rows) IN
    /\ \A i \in OpIdx("commit") : \A j \in InsertIdx : j < i
    /\ pc = "done" =>
         /\ Len(events) = 4 + N + 3
         /\ \A i \in 1..N :
              /\ IsInsert(events[4 + i])
              /\ events[4 + i].ok
              /\ events[4 + i].q.row = i
         /\ InsertIdx = {4 + i : i \in 1..N}
         /\ events[4 + N + 1] = Event("commit", NoQuery, TRUE)
         /\ events[4 + N + 2] = Event("cursor_close", NoQuery, TRUE)
         /\ events[4 + N + 3] = Event("conn_close", NoQuery, TRUE)
         /\ out[Len(out)].msg = "summary"
         /\ out[Len(out)].rows = N

C1_Witness ==
    pc = "done" /\ Len(csv.rows) >= 2 /\ Cardinality(InsertIdx) >= 2

\* C2: the bound column list is the first min(len(T), C) columns of the
\* catalog's list T; it is fixed before the first INSERT, and every INSERT
\* names exactly those columns and binds that many values, the value at
\* position j being the row's value of data column j.
C2_BoundColumnsArePrefix ==
    LET bound == Prefix(catalog_columns, csv.ncols) IN
    /\ AfterTruncation => table_columns = bound
    /\ \A i \in InsertIdx :
         LET q == events[i].q IN
         /\ q.columns = bound
         /\ Len(q.params) = (IF Len(catalog_columns) < csv.ncols
                             THEN Len(catalog_columns) ELSE csv.ncols)
         /\ \A j \in 1..Len(q.params) : q.params[j] = df.rows[q.row][j]

C2_Witness ==
    /\ Len(catalog_columns) > csv.ncols
    /\ table_columns = <<catalog_columns[1]>>
    /\ Cardinality(InsertIdx) >= 2

\* C3: an INSERT for a data row with fewer fields than the bound-column
\* count binds the row's own values where it has them and a null (None) at
\* every missing position.
C3_ShortRowBindsNull ==
    \A i \in InsertIdx :
        LET q   == events[i].q
            raw == csv.rows[q.row] IN
        Len(raw) < Len(q.columns) =>
            \A j \in 1..Len(q.columns) :
                IF j <= Len(raw)
                THEN q.params[j] \in {Str(raw[j]), Date(raw[j])}
                ELSE q.params[j] = None

\* the extension of path, lower-cased, is none of .yaml, .yml, .json
Unsupported(path) == Lower(SplitExt(path)) \notin {EXT_YAML, EXT_YML, EXT_JSON}

\* C4 as stated: an unsupported extension always gives the ValueError naming
\* the extension, whether or not a file exists at the path.
C4_Original ==
    (pc # "start" /\ Unsupported(config_path)) =>
        /\ pc = "failed"
        /\ err.kind = "ValueError"
        /\ err.ext = Lower(SplitExt(config_path))
        /\ config = "none"

\* C4 amended: load_config on a path with an unsupported extension never
\* returns a mapping; it fails with the ValueError naming the lower-cased
\* extension when a file exists at the path, and with FileNotFoundError
\* when none does.
C4_UnsupportedExtensionFails ==
    (pc # "start" /\ Unsupported(config_path)) =>
        /\ pc = "failed"
        /\ err.from = "load_config"
        /\ config = "none"
        /\ config_exists =>
             (err.kind = "ValueError" /\ err.ext = Lower(SplitExt(config_path)))
        /\ ~config_exists => err.kind = "FileNotFoundError"

C4_Witness ==
    /\ pc = "failed"
    /\ config_exists
    /\ config_path = <<"c", ".", "t", "x", "t">>
    /\ err.kind = "ValueError"

\* C5: with no file at the config path, load_config fails with
\* FileNotFoundError whatever the extension, and the run opens no connection
\* and executes no query.
C5_MissingConfigFails ==
    (pc # "start" /\ ~config_exists) =>
        /\ pc = "failed"
        /\ err.kind = "FileNotFoundError"
        /\ err.from = "load_config"
        /\ events = <<>>
        /\ ~conn_open /\ ~cursor_open

C5_Witness ==
    /\ pc = "failed"
    /\ ~config_exists
    /\ Unsupported(config_path)
    /\ err.kind = "FileNotFoundError"

\* C6: the table name is split on its first '.' only: the split never fails,
\* the schema is the text before the first '.', the table the text after
\* it; a name without '.' gets no schema filter.
C6_SplitOnFirstDot ==
    (Connected /\ pc # "connected") =>
        /\ err.from # "split"
        /\ \E i \in 1..Len(events) : IsSelect(events[i])
        /\ \A i \in 1..Len(events) : IsSelect(events[i]) =>
             LET q    == events[i].q
                 dots == Positions(table_name, ".") IN
             IF dots = {}
             THEN ~q.filtered /\ q.target = table_name
             ELSE /\ q.schema = SubSeq(table_name, 1, Min(dots) - 1)
                  /\ q.target = SubSeq(table_name, Min(dots) + 1, Len(table_name))

\* C7: when the metadata query returns no column, the run fails with the
\* ValueError of get_table_columns, and the metadata query is the only
\* statement executed: no INSERT, no commit.
C7_NoColumnsFails ==
    (OpIdx("fetchall") # {} /\ catalog_columns = <<>>) =>
        /\ pc = "failed"
        /\ err.kind = "ValueError"
        /\ err.from = "columns"
        /\ InsertIdx = {}
        /\ OpIdx("commit") = {}
        /\ Cardinality(OpIdx("execute")) = 1
        /\ \A i \in OpIdx("execute") : IsSelect(events[i])

C7_Witness ==
    /\ pc = "failed"
    /\ err.from = "columns"
    /\ Len(csv.rows) >= 1

\* C8: a failing INSERT for row k ends the run at once: it is the last call
\* made, exactly k-1 INSERTs succeeded before it, no commit and no rollback
\* is issued, and no success summary is printed.
C8_InsertFailureAborts ==
    \A i \in InsertIdx : ~events[i].ok =>
        LET k == events[i].q.row IN
        /\ i = Len(events)
        /\ pc = "failed"
        /\ err.kind = "StatementExecutionFailure"
        /\ rows_inserted = k - 1
        /\ Cardinality({j \in InsertIdx : events[j].ok}) = k - 1
        /\ \A j \in InsertIdx : events[j].q.row <= k
        /\ OpIdx("commit") = {}
        /\ OpIdx("rollback") = {}
        /\ \A n \in 1..Len(out) : out[n].msg \notin {"success", "summary"}

C8_Witness ==
    /\ pc = "failed"
    /\ err.from = "insert"
    /\ rows_inserted = 1
    /\ Len(csv.rows) = 2

\* C9: date coercion is all or nothing per column and never an error: a
\* bound column whose name contains 'date' (any case) has every value
\* replaced by its date when every value parses, and keeps every value when
\* one does not; every other data column keeps its values; the run goes on
\* to the inserts.
C9_CoercionAllOrNothing ==
    LET orig == ReadCsv(csv) IN
    /\ pc \in {"read", "connected", "columns", "truncated"} => df = orig
    /\ pc = "failed" =>
         err.from \in {"load_config", "split", "metadata", "columns", "insert", "commit"}
    /\ AfterCoercion =>
         /\ df.ncols = orig.ncols
         /\ Len(df.rows) = Len(orig.rows)
         /\ \A j \in 1..orig.ncols :
              LET rows == 1..Len(orig.rows) IN
              IF j <= Len(table_columns) /\ Contains(Lower(table_columns[j]), DATE)
              THEN IF \A r \in rows : Parses(orig.rows[r][j])
                   THEN \A r \in rows : df.rows[r][j] = ToDate(orig.rows[r][j])
                   ELSE \A r \in rows : df.rows[r][j] = orig.rows[r][j]
              ELSE \A r \in rows : df.rows[r][j] = orig.rows[r][j]

C9_Witness ==
    /\ pc = "insert"
    /\ Len(df.rows) = 2
    /\ \E j \in 1..Len(table_columns) :
         /\ IsDateName(table_columns[j])
         /\ df.rows[1][j] = Str("2023-01-15")
         /\ df.rows[2][j] = Str("not-a-date")

\* C10: the cursor and the connection are closed only after a successful
\* commit, and a run that fails after the connection was opened ends with
\* both still open.
C10_CloseOnlyAfterCommit ==
    /\ \A i \in OpIdx("cursor_close") \cup OpIdx("conn_close") :
         \E c \in OpIdx("commit") : c < i /\ events[c].ok
    /\ (~cursor_open /\ Connected) => \E c \in OpIdx("commit") : events[c].ok
    /\ (~conn_open /\ Connected) => \E c \in OpIdx("commit") : events[c].ok
    /\ (pc = "failed" /\ Connected) =>
         /\ conn_open /\ cursor_open
         /\ OpIdx("cursor_close") = {} /\ OpIdx("conn_close") = {}

C10_Witness ==
    /\ pc = "failed"
    /\ err.from = "insert"
    /\ conn_open /\ cursor_open
    /\ rows_inserted >= 1

=============================================================================
